---- MODULE Spec2Model ----
(***************************************************************************)
(* Waveform editing core of the Epoch123 audio viewer: the PlotWidget      *)
(* (selection, view range, undo/redo stacks), the SoundEditor DSP edits    *)
(* and the AudioPlayer (playback source, transport, temporary file), with  *)
(* the FileNavigator (file tree, audio cache, soft delete) and the         *)
(* MetaDataDB tables behind them.                                          *)
(*                                                                         *)
(* Numbers.  Python floats are fixed-point integers here: a coordinate or  *)
(* an amplitude n stands for n / Res.  int(x) truncates toward zero.       *)
(* The numeric kernels of scipy.signal.filtfilt and numpy.fft are library  *)
(* code; they are represented by exact integer transforms of the same      *)
(* shape (length preserving, deterministic, fft invertible by ifft), and   *)
(* everything the repository's code does around them is modelled as is.    *)
(***************************************************************************)
EXTENDS Integers, Sequences, FiniteSets, TLC

VARIABLES
    data,               \* PlotWidget.data
    fs,                 \* PlotWidget.fs
    xlim,               \* PlotWidget.ax.get_xlim(): the view range
    selected_region,    \* PlotWidget.selected_region
    position_line,      \* x of PlotWidget.position_line (the playhead)
    undo_stack,         \* PlotWidget.undo_stack
    redo_stack,         \* PlotWidget.redo_stack
    audio_data,         \* SoundEditor.audio_data
    player_audio_data,  \* AudioPlayer.audio_data (the playback source)
    initial_frame,      \* AudioPlayer.initial_frame
    player,             \* AudioPlayer: playing, timer, temp_file, the mixer
    nav,                \* FileNavigator: files, caches, deleted_files, its plot
    metaDataDB,         \* MetaDataDB: the rows of the three tables
    edits,              \* number of DSP edits since the file was opened
    call,               \* the handler that ran last and how it ended
    trk                 \* bookkeeping of an edit / undo / redo round trip

vars == <<data, fs, xlim, selected_region, position_line, undo_stack,
          redo_stack, audio_data, player_audio_data, initial_frame, player,
          nav, metaDataDB, edits, call, trk>>

----------------------------------------------------------------------------
(* Bounds of the model *)

Res == 20           \* fixed-point resolution: 1.0 is Res
MaxUndo == 2        \* pushes are explored while the undo stack is shorter
MaxRedo == 1        \* pushes are explored while the redo stack is shorter
MaxEdits == 1       \* DSP edits explored per opened file
MaxRoundTrip == 2   \* edits in an explored round trip
MaxObjects == 8     \* array objects created in an explored session
MaxTempFiles == 2   \* temporary wav files on disk at one time
MaxLen == 5         \* samples of an enumerated buffer
MaxDeleted == 2     \* soft-deleted files kept in the temp directory
MaxRows == 3        \* rows ever inserted into one table of the database
MaxPresses == 3     \* transport buttons pressed in an explored session

----------------------------------------------------------------------------
(* Values *)

None == <<>>

NoBuf == [shape |-> "none", s |-> <<>>]
Arr(s) == [shape |-> "array", s |-> s]
\* a numpy scalar or 0-d array: it has no len() and cannot be sliced
Scalar(v) == [shape |-> "scalar", s |-> <<v>>]

Sized(b) == b.shape = "array"

Abs(x) == IF x < 0 THEN -x ELSE x

\* int(x) of a float: truncation toward zero
int(x) == IF x >= 0 THEN x \div Res ELSE -((-x) \div Res)

\* index normalisation of a Python slice bound
SliceIndex(i, n) ==
    IF i < 0 THEN (IF i + n < 0 THEN 0 ELSE i + n)
    ELSE (IF i > n THEN n ELSE i)

\* seq[a:b]
Slice(s, a, b) ==
    LET n == Len(s)
        lo == SliceIndex(a, n)
        hi == SliceIndex(b, n)
    IN IF hi <= lo THEN <<>> ELSE SubSeq(s, lo + 1, hi)

\* seq[:b] and seq[a:]
SliceTo(s, b) == Slice(s, 0, b)
SliceFrom(s, a) == Slice(s, a, Len(s))

\* np.copy(x): an array stays an array, a scalar becomes a 0-d array
np_copy(b) == b

\* an undo/redo entry: the tuple (data, view) or a bare array
Entry(b, view) == [tuple |-> TRUE, data |-> b, view |-> view]
Bare(b) == [tuple |-> FALSE, data |-> b, view |-> <<0, 0>>]

Last(q) == q[Len(q)]
Front(q) == SubSeq(q, 1, Len(q) - 1)

\* Axes.set_xlim(lo, hi): identical limits are expanded (matplotlib's
\* nonsingular, expander 0.05)
set_xlim(lo, hi) ==
    IF lo = hi
    THEN IF lo = 0 THEN <<-(Res \div 20), Res \div 20>>
         ELSE <<lo - (Abs(lo) \div 20), hi + (Abs(hi) \div 20)>>
    ELSE <<lo, hi>>

\* Axes.get_xbound(): the view limits in increasing order
get_xbound(v) == IF v[1] <= v[2] THEN v ELSE <<v[2], v[1]>>

----------------------------------------------------------------------------
(* SoundEditor: the DSP kernels *)

\* number of coefficients of sig.butter(4, ...): 5 for low and high pass,
\* 9 for the band pass (order 8)
ntaps(index) == IF index = 2 THEN 9 ELSE 5

\* filtfilt's default padlen = 3 * max(len(a), len(b))
padlen(index) == 3 * ntaps(index)

\* x[i] of a signal of n samples extended by its end samples
At(x, i, n) == IF i < 1 THEN x[1] ELSE IF i > n THEN x[n] ELSE x[i]

\* zero-phase smoothing kernel (symmetric, so no phase shift)
Smooth(x) ==
    LET n == Len(x)
    IN [i \in 1..n |-> (At(x, i - 1, n) + 2 * x[i] + At(x, i + 1, n)) \div 4]

\* sig.filtfilt(b, a, x) for the design chosen by index; defined for
\* Len(x) > padlen(index)
filtfilt(index, x) ==
    LET low == Smooth(x)
        lower == Smooth(low)
    IN IF index = 0 THEN low
       ELSE IF index = 1 THEN [i \in 1..Len(x) |-> x[i] - low[i]]
       ELSE [i \in 1..Len(x) |-> low[i] - lower[i]]

\* the running sums of x from sample k on, appended to out (acc: the sum so far)
RECURSIVE Sum(_, _, _, _)
Sum(x, k, acc, out) ==
    IF k > Len(x) THEN out
    ELSE Sum(x, k + 1, acc + x[k], Append(out, acc + x[k]))

\* numpy.fft.fft / ifft: an invertible linear transform to N bins
fft(x) == Sum(x, 1, 0, <<>>)
ifft(X) == [n \in 1..Len(X) |-> IF n = 1 THEN X[1] ELSE X[n] - X[n - 1]]

\* 2 ** (semitones / 12) as the fraction <<numerator, denominator>>
Factor(semitones) ==
    IF semitones = 12 THEN <<2, 1>>
    ELSE IF semitones = -12 THEN <<1, 2>>
    ELSE <<1, 1>>

\* faulty variant: the bins are counted from one
new_index_from_one(i, factor) ==
    ((i + 1) * factor[1]) \div factor[2]

\* (np.arange(N) * factor).astype(int) at bin i (0-based)
new_index(i, factor) ==
    (i * factor[1]) \div factor[2]

Max(S) == CHOOSE m \in S : \A e \in S : e <= m

\* faulty variant: the first source bin written to a target wins
Remap_first_wins(spectrum, factor) ==
    LET N == Len(spectrum)
    IN [j1 \in 1..N |->
          LET src == {i \in 0..(N - 1) :
                        (i * factor[1]) \div factor[2] = j1 - 1}
          IN IF src = {} THEN 0
             ELSE spectrum[(CHOOSE m \in src : \A e \in src : m <= e) + 1]]

\* new_fft_spectrum[new_indices[valid]] = fft_spectrum[valid]: the last
\* source bin written to a target wins.  new_index does not decrease with
\* i, so the sources of target j lie between j / factor and (j + 1) / factor
Remap(spectrum, factor) ==
    LET N == Len(spectrum)
        lo(j) == (j * factor[2]) \div factor[1]
        hi(j) == ((j + 1) * factor[2]) \div factor[1]
    IN [j1 \in 1..N |->
          LET src == {i \in lo(j1 - 1)..hi(j1 - 1) :
                        i < N /\ new_index(i, factor) = j1 - 1}
          IN IF src = {} THEN 0 ELSE spectrum[Max(src) + 1]]

fft_pitch_shift(x, factor) == ifft(Remap(fft(x), factor))

\* np.max(np.abs(x)) of a non-empty array
ref_level(x) == Max({Abs(x[i]) : i \in 1..Len(x)})

\* 10 ** (decibel_level / 20.0) as the fraction <<numerator, denominator>>
Gain(db) ==
    IF db = -20 THEN <<1, 10>>
    ELSE IF db = 20 THEN <<10, 1>>
    ELSE <<1, 1>>

\* faulty variant: samples equal to the threshold are zeroed too
trimmed_inclusive(x, db) ==
    LET g == Gain(db)
        ref == ref_level(x)
    IN [i \in 1..Len(x) |-> IF Abs(x[i]) * g[2] <= ref * g[1] THEN 0 ELSE x[i]]

\* np.where(np.abs(x) < threshold, 0, x), threshold = ref * gain
trimmed(x, db) ==
    LET g == Gain(db)
        ref == ref_level(x)
    IN [i \in 1..Len(x) |-> IF Abs(x[i]) * g[2] < ref * g[1] THEN 0 ELSE x[i]]

----------------------------------------------------------------------------
(* The program state as one record, so that a handler is a function from   *)
(* the state before to the state after it, calls included.  exc is the     *)
(* exception that left the handler (the rest of the handler did not run);  *)
(* report is what the handler showed or logged.                            *)

St == [data |-> data, fs |-> fs, xlim |-> xlim,
       selected_region |-> selected_region, position_line |-> position_line,
       undo_stack |-> undo_stack, redo_stack |-> redo_stack,
       audio_data |-> audio_data, player_audio_data |-> player_audio_data,
       initial_frame |-> initial_frame, player |-> player,
       nav |-> nav, db |-> metaDataDB,
       exc |-> "none", report |-> "none"]

Raise(s, e) == [s EXCEPT !.exc = e]
Report(s, r) == [s EXCEPT !.report = r]

----------------------------------------------------------------------------
(* AudioPlayer.  player.music is pygame's mixer.music: the samples it has  *)
(* loaded from the temporary file and whether it plays them; temp_file     *)
(* says that self.temp_file is set, disk counts the temporary wav files    *)
(* that exist, audio is the AudioSegment of the file given to set_audio.   *)

Idle == [playing |-> FALSE, timer |-> FALSE, temp_file |-> FALSE, disk |-> 0,
         music |-> [state |-> "stopped", data |-> NoBuf], audio |-> NoBuf]

\* the steps of start_playback that can raise
Failures == {"none", "create", "write", "load"}

\* faulty variant: a new source is loaded into the mixer at once
set_audio_data_and_reload(s, d) ==
    [s EXCEPT !.player_audio_data = d,
              !.player.music.data = IF s.player.music.state = "stopped"
                                    THEN @ ELSE d]

set_audio_data(s, d) ==
    [s EXCEPT !.player_audio_data = d]

\* PlotWidget.reset_position_line, the slot of playback_finished
reset_position_line(s) ==
    [s EXCEPT !.position_line = IF s.selected_region # None
                                THEN int(s.selected_region[1]) * Res
                                ELSE 0]

\* int(position / 1000 * fs), position in ms
position_index(position, rate) == (position * rate) \div 1000

\* PlotWidget.update_position_line, the slot of update_position
update_position_line(s, position) ==
    IF s.fs # 0 /\ s.data.shape # "none"
    THEN IF ~Sized(s.data) THEN Raise(s, "TypeError")
         ELSE IF position_index(position, s.fs) <= Len(s.data.s)
         THEN [s EXCEPT !.position_line = position_index(position, s.fs) * Res]
         ELSE s
    ELSE s

cleanup(s) ==
    IF s.player.temp_file
    THEN [s EXCEPT !.player.temp_file = FALSE, !.player.disk = @ - 1]
    ELSE s

\* fail names the statement of the try block that raises
start_playback(s, fail) ==
    IF s.player_audio_data.shape = "none" THEN Report(s, "error")
    ELSE LET s1 == [s EXCEPT !.player.playing = TRUE]
             s2 == [s1 EXCEPT !.player.temp_file = TRUE,
                              !.player.disk = @ + 1]
         IN IF fail = "create" THEN Report(s1, "error")
            ELSE IF fail \in {"write", "load"} THEN Report(s2, "error")
            ELSE [s2 EXCEPT !.player.music =
                                [state |-> "playing",
                                 data |-> s.player_audio_data],
                            !.player.timer = TRUE]

stop_playback(s) ==
    cleanup(reset_position_line(
        [s EXCEPT !.player.music.state = "stopped",
                  !.player.timer = FALSE,
                  !.player.playing = FALSE]))

pause(s) ==
    IF s.player.playing
    THEN [s EXCEPT !.player.music.state = IF @ = "playing" THEN "paused"
                                          ELSE @,
                   !.player.timer = FALSE,
                   !.player.playing = FALSE]
    ELSE s

resume(s) ==
    IF ~s.player.playing
    THEN [s EXCEPT !.player.music.state = IF @ = "paused" THEN "playing"
                                          ELSE @,
                   !.player.timer = TRUE,
                   !.player.playing = TRUE]
    ELSE s

\* AudioSegment.reverse()
Reverse(x) == [i \in 1..Len(x) |-> x[Len(x) + 1 - i]]

\* play_reverse: exported says whether the export and the load of the
\* reversed segment succeed; the except branch reports and raises again.
\* The temporary mp3 is deleted when the with block ends.
play_reverse(s, exported) ==
    IF s.player.audio.shape = "none"
    THEN Raise(Report(s, "critical"), "ValueError")
    ELSE IF ~exported THEN Raise(Report(s, "critical"), "Exception")
    ELSE [s EXCEPT !.player.music = [state |-> "playing",
                                     data |-> Arr(Reverse(s.player.audio.s))],
                   !.player.playing = TRUE]

\* int(self.initial_frame * (1000 / self.sample_rate)), in ms; the player's
\* sample rate is the plot's fs (both are set from the opened file)
initial_offset(frame, rate) == (frame * 1000) \div rate

\* the timer's slot; position is pg.mixer.music.get_pos(), in ms
emit_position(s, position) ==
    IF s.player.music.state = "playing"
    THEN update_position_line(s,
             position + initial_offset(s.initial_frame, s.fs))
    ELSE IF s.player.playing THEN stop_playback(reset_position_line(s))
    ELSE s

----------------------------------------------------------------------------
(* PlotWidget *)

\* update_plot(data, fs, audio): len(data) raises TypeError for an unsized
\* value, after the three assignments
update_plot(s, d, f) ==
    LET s1 == [s EXCEPT !.data = d, !.fs = f]
    IN IF ~Sized(d) THEN Raise(s1, "TypeError")
       ELSE [s1 EXCEPT !.position_line = 0,
                       !.xlim = set_xlim(0, Len(d.s) * Res)]

\* data[a:b] of a value that is no array: None is not subscriptable
\* (TypeError), a numpy scalar is not indexable (IndexError)
SubscriptError(b) == IF b.shape = "none" THEN "TypeError" ELSE "IndexError"

clear_selection(s) ==
    [set_audio_data(s, s.data) EXCEPT !.selected_region = None,
                                      !.position_line = 0]

\* faulty variant: the player is not told where the segment starts
on_select_without_offset(s, xmin, xmax) ==
    IF xmax - xmin > Res /\ Sized(s.data)
    THEN [s EXCEPT !.selected_region = <<xmin, xmax>>,
                   !.player_audio_data =
                       Arr(Slice(s.data.s, int(xmin), int(xmax))),
                   !.position_line = xmin]
    ELSE clear_selection(s)

on_select(s, xmin, xmax) ==
    IF xmax - xmin > Res
    THEN LET s1 == [s EXCEPT !.selected_region = <<xmin, xmax>>]
         IN IF ~Sized(s.data) THEN Raise(s1, SubscriptError(s.data))
            ELSE [set_audio_data(s1, Arr(Slice(s.data.s, int(xmin), int(xmax))))
                    EXCEPT !.initial_frame = int(xmin),
                           !.position_line = xmin]
    ELSE clear_selection(s)

\* context_menu(event, context): the menu is built, then event.pos() is
\* read: a Qt context-menu event has it, and the menu is shown; the
\* matplotlib mouse event that on_click passes on has no pos attribute
\* context says whether the call passes 'selected_region': the menu then
\* has the zoom-in and the two crop actions as well
context_menu(s, qt_event, context) ==
    IF qt_event
    THEN Report(s, IF context THEN "menu_selected_region" ELSE "menu")
    ELSE Raise(s, "AttributeError")

\* contextMenuEvent(event): Qt's context-menu event of the widget
contextMenuEvent(s) == context_menu(s, TRUE, s.selected_region # None)

\* on_click(event): the matplotlib button_press_event; xdata is None when
\* the click is outside the axes, and None compares with no number
on_click(s, button, inaxes, xdata) ==
    IF button = 1
    THEN IF s.selected_region # None /\ inaxes
         THEN IF ~(s.selected_region[1] <= xdata /\ xdata <= s.selected_region[2])
              THEN clear_selection(s)
              ELSE s
         ELSE s
    ELSE IF button = 3
    THEN IF s.selected_region # None
         THEN IF ~inaxes THEN Raise(s, "TypeError")
              ELSE context_menu(s, FALSE,
                       s.selected_region[1] <= xdata
                           /\ xdata <= s.selected_region[2])
         ELSE context_menu(s, FALSE, FALSE)
    ELSE s

zoom_out(s) ==
    IF s.data.shape # "none"
    THEN IF ~Sized(s.data) THEN Raise(s, "TypeError")
         ELSE clear_selection(
                [s EXCEPT !.xlim = set_xlim(0, Len(s.data.s) * Res),
                          !.undo_stack = Append(s.undo_stack, Bare(s.data)),
                          !.redo_stack = Append(s.redo_stack, Bare(s.data))])
    ELSE s

zoom_into_selected(s) ==
    IF s.selected_region # None
    THEN clear_selection(
           [s EXCEPT !.undo_stack =
                        Append(s.undo_stack, Entry(np_copy(s.data), s.xlim)),
                     !.xlim = set_xlim(s.selected_region[1], s.selected_region[2])])
    ELSE s

\* faulty variant: the state is pushed before the selection is tested
crop_selected_push_first(s) ==
    LET s1 == [s EXCEPT !.undo_stack =
                   Append(s.undo_stack, Entry(np_copy(s.data), s.xlim))]
    IN IF s.selected_region = None THEN s1
       ELSE IF ~Sized(s.data) THEN Raise(s1, SubscriptError(s.data))
       ELSE LET s2 == [s1 EXCEPT !.data =
                           Arr(Slice(s.data.s, int(s.selected_region[1]),
                                     int(s.selected_region[2])))]
                s3 == clear_selection(s2)
            IN update_plot(s3, s3.data, s3.fs)

crop_selected(s) ==
    IF s.selected_region # None
    THEN LET xmin == s.selected_region[1]
             xmax == s.selected_region[2]
             s1 == [s EXCEPT !.undo_stack =
                        Append(s.undo_stack, Entry(np_copy(s.data), s.xlim))]
         IN IF ~Sized(s.data) THEN Raise(s1, SubscriptError(s.data))
            ELSE LET s2 == [s1 EXCEPT !.data =
                                Arr(Slice(s.data.s, int(xmin), int(xmax)))]
                     s3 == clear_selection(s2)
                 IN update_plot(s3, s3.data, s3.fs)
    ELSE s

crop_unselected(s) ==
    IF s.selected_region # None
    THEN LET xmin == s.selected_region[1]
             xmax == s.selected_region[2]
             s1 == [s EXCEPT !.undo_stack =
                        Append(s.undo_stack, Entry(np_copy(s.data), s.xlim))]
         IN IF ~Sized(s.data) THEN Raise(s1, SubscriptError(s.data))
            ELSE LET s2 == [s1 EXCEPT !.data =
                                Arr(SliceTo(s.data.s, int(xmin))
                                    \o SliceFrom(s.data.s, int(xmax)))]
                     s3 == clear_selection(s2)
                 IN update_plot(s3, s3.data, s3.fs)
    ELSE s

\* push_state(data): defined by the widget, called from nowhere
push_state(s, d) ==
    [s EXCEPT !.undo_stack = Append(s.undo_stack, Entry(np_copy(d), s.xlim)),
              !.redo_stack = <<>>]

\* a, b = entry: a tuple unpacks; a bare array unpacks only when it has
\* exactly two elements, and then into two scalars
Unpacks(e) == e.tuple \/ Len(e.data.s) = 2
UnpackedState(e) == IF e.tuple THEN e.data ELSE Scalar(e.data.s[1])

\* ax.set_xlim(view): a tuple sets both limits, a scalar the left one
set_xlim_view(e, cur) ==
    IF e.tuple THEN set_xlim(e.view[1], e.view[2])
    ELSE set_xlim(e.data.s[2], cur[2])

\* faulty variant: the entry is moved but its buffer is not made active
undo_without_restore(s) ==
    IF s.undo_stack # <<>>
    THEN [s EXCEPT !.undo_stack = Front(s.undo_stack),
                   !.redo_stack = Append(s.redo_stack,
                                         Entry(np_copy(s.data), s.xlim))]
    ELSE s

undo_last_action(s) ==
    IF s.undo_stack # <<>>
    THEN LET top == Last(s.undo_stack)
             s1 == [s EXCEPT !.undo_stack = Front(s.undo_stack)]
         IN IF ~Unpacks(top)
            THEN Report(s1, "logged")      \* except ValueError
            ELSE LET s2 == [s1 EXCEPT
                              !.redo_stack = Append(s.redo_stack,
                                                Entry(np_copy(s.data), s.xlim)),
                              !.data = UnpackedState(top),
                              !.xlim = set_xlim_view(top, s.xlim)]
                 IN update_plot(s2, s2.data, s2.fs)
    ELSE s

\* faulty variant: without the guard on the stack the tail of the handler
\* runs on an empty stack too
redo_unguarded(s) ==
    IF s.redo_stack # <<>>
    THEN LET top == Last(s.redo_stack)
             s1 == [s EXCEPT !.redo_stack = Front(s.redo_stack),
                             !.undo_stack = Append(s.undo_stack,
                                               Entry(np_copy(s.data), s.xlim)),
                             !.data = UnpackedState(top)]
         IN clear_selection(update_plot(s1, s1.data, s1.fs))
    ELSE IF ~Sized(s.data) THEN s
    ELSE clear_selection(update_plot(s, s.data, s.fs))

redo_last_action(s) ==
    IF s.redo_stack # <<>>
    THEN LET top == Last(s.redo_stack)
             s1 == [s EXCEPT !.redo_stack = Front(s.redo_stack)]
         IN IF ~Unpacks(top)
            THEN Raise(s1, "ValueError")
            ELSE LET s2 == [s1 EXCEPT
                              !.undo_stack = Append(s.undo_stack,
                                                Entry(np_copy(s.data), s.xlim)),
                              !.data = UnpackedState(top)]
                     s3 == update_plot(s2, s2.data, s2.fs)
                 IN IF s3.exc # "none" THEN s3
                    ELSE LET s4 == clear_selection(s3)
                         IN [s4 EXCEPT !.xlim = set_xlim_view(top, s4.xlim)]
    ELSE s

reset_plot(s) ==
    IF s.undo_stack # <<>>
    THEN LET stored == s.undo_stack[1]
             s1 == clear_selection([s EXCEPT !.data = stored.data])
         IN update_plot(s1, s1.data, s1.fs)
    ELSE s

----------------------------------------------------------------------------
(* SoundEditor *)

\* the guard shared by the three edits: no data, or no samples
NoAudio(s) == s.audio_data.shape = "none" \/ Len(s.audio_data.s) = 0

\* the tail shared by the three edits: hand the new buffer to the player
\* and to the plot (SoundEditor.sample_rate is the plot's fs: both are set
\* from the same file)
Publish(s, x) ==
    LET s1 == set_audio_data([s EXCEPT !.audio_data = Arr(x)], Arr(x))
    IN Report(update_plot(s1, s1.audio_data, s1.fs), "information")

PushAudio(s) ==
    [s EXCEPT !.undo_stack =
        Append(s.undo_stack, Entry(np_copy(s.audio_data), s.xlim))]

apply_filter(s, index) ==
    IF NoAudio(s) THEN Report(s, "critical")
    ELSE IF 0 <= index /\ index < 3
    THEN LET s1 == PushAudio(s)
         IN IF Len(s.audio_data.s) <= padlen(index)
            THEN Report(s1, "critical")    \* filtfilt raises, except Exception
            ELSE Publish(s1, filtfilt(index, s.audio_data.s))
    ELSE Report(s, "critical")

change_pitch(s, semitones) ==
    IF NoAudio(s) THEN Report(s, "critical")
    ELSE Publish(PushAudio(s),
                 fft_pitch_shift(s.audio_data.s, Factor(semitones)))

\* faulty variant: a silent buffer is trimmed like any other
trim_audio_of_silence(s, decibel_level) ==
    IF NoAudio(s) THEN Report(s, "critical")
    ELSE Publish(PushAudio(s), trimmed(s.audio_data.s, decibel_level))

trim_audio(s, decibel_level) ==
    IF NoAudio(s) THEN Report(s, "critical")
    ELSE IF ref_level(s.audio_data.s) = 0 THEN s
    ELSE Publish(PushAudio(s), trimmed(s.audio_data.s, decibel_level))

\* audio_file is set with the samples when a file is opened; written says
\* whether sf.write succeeds
save_audio(s, written) ==
    IF s.audio_data.shape = "none" THEN Report(s, "critical")
    ELSE IF written THEN Report(s, "information")
    ELSE Report(s, "critical")

----------------------------------------------------------------------------
(* MetaDataDB.  A table is the sequence of its rows in rowid order.  Every *)
(* call opens a connection of its own with sqlite3.connect and sets no     *)
(* pragma, so SQLite does not enforce the FOREIGN KEY clauses of           *)
(* file_tags; an AUTOINCREMENT key is one more than the largest key the    *)
(* table ever had (files_seq, tags_seq).                                    *)

Files == {"short", "long"}
Tags == {"loud", "soft"}

\* SQL NULL in a key column
Null == 0

\* the two files of the sound directory, entered by
\* MainWindow.scan_and_insert_metadata
DbInit ==
    [audio_files |-> <<[file_id |-> 1, file_path |-> "short"],
                       [file_id |-> 2, file_path |-> "long"]>>,
     files_seq |-> 2,
     tags |-> <<>>,
     tags_seq |-> 0,
     file_tags |-> <<>>]

file_already_exists(s, file_path) ==
    \E i \in DOMAIN s.db.audio_files :
        s.db.audio_files[i].file_path = file_path

insert_metadata(s, file_path) ==
    IF file_already_exists(s, file_path) THEN s
    ELSE [s EXCEPT !.db.audio_files =
                       Append(@, [file_id |-> s.db.files_seq + 1,
                                  file_path |-> file_path]),
                   !.db.files_seq = @ + 1]

\* (SELECT file_id FROM audio_files WHERE file_path = ?)
get_file_id(s, file_path) ==
    IF file_already_exists(s, file_path)
    THEN (CHOOSE row \in {s.db.audio_files[i] : i \in DOMAIN s.db.audio_files} :
              row.file_path = file_path).file_id
    ELSE Null

\* (SELECT tag_id FROM tags WHERE tag_name = ?)
get_tag_id(s, tag_name) ==
    IF \E i \in DOMAIN s.db.tags : s.db.tags[i].tag_name = tag_name
    THEN (CHOOSE row \in {s.db.tags[i] : i \in DOMAIN s.db.tags} :
              row.tag_name = tag_name).tag_id
    ELSE Null

\* DELETE FROM audio_files WHERE file_path = ?
MetaDataDB_delete_file(s, file_path) ==
    LET Other(row) == row.file_path # file_path
    IN [s EXCEPT !.db.audio_files = SelectSeq(@, Other)]

\* INSERT OR IGNORE: tag_name is UNIQUE
add_tag(s, tag_name) ==
    IF get_tag_id(s, tag_name) # Null THEN s
    ELSE [s EXCEPT !.db.tags = Append(@, [tag_id |-> s.db.tags_seq + 1,
                                          tag_name |-> tag_name]),
                   !.db.tags_seq = @ + 1]

\* DELETE FROM tags WHERE tag_name = ?
remove_tag(s, tag_name) ==
    LET Other(row) == row.tag_name # tag_name
    IN [s EXCEPT !.db.tags = SelectSeq(@, Other)]

\* INSERT OR IGNORE INTO file_tags: the primary key (file_id, tag_id)
\* rejects a second row of the same two ids; a subquery without a row
\* yields NULL, and rows with a NULL never conflict
add_tag_to_file(s, file_path, tag_name) ==
    LET row == [file_id |-> get_file_id(s, file_path),
                tag_id |-> get_tag_id(s, tag_name)]
    IN IF /\ row.file_id # Null
          /\ row.tag_id # Null
          /\ \E i \in DOMAIN s.db.file_tags : s.db.file_tags[i] = row
       THEN s
       ELSE [s EXCEPT !.db.file_tags = Append(@, row)]

\* DELETE FROM file_tags WHERE file_id = (...) AND tag_id = (...): a
\* comparison with NULL is never true
remove_tag_from_file(s, file_path, tag_name) ==
    LET f == get_file_id(s, file_path)
        g == get_tag_id(s, tag_name)
        Other(row) == ~(f # Null /\ g # Null
                            /\ row.file_id = f /\ row.tag_id = g)
    IN [s EXCEPT !.db.file_tags = SelectSeq(@, Other)]

----------------------------------------------------------------------------
(* FileNavigator: the files that can be opened in the editor *)

LongLen == padlen(2) + 1

FileData(f) ==
    IF f = "short"
    THEN Arr(<<Res \div 2, Res, -Res, Res \div 4, 0>>)
    ELSE Arr([i \in 1..LongLen |-> (((i * 7) % 5) - 2) * (Res \div 4)])

FileFs(f) == IF f = "long" THEN 8000 ELSE 1000

\* go_to_sound_editor, from the assignment of plot_widget.data on; the
\* shared player already holds the file's samples (set_audio at selection)
go_to_sound_editor(s, f) ==
    LET s1 == clear_selection([stop_playback(s) EXCEPT
                                   !.data = FileData(f),
                                   !.player.audio = FileData(f)])
        s2 == update_plot(s1, FileData(f), FileFs(f))
    IN [s2 EXCEPT !.audio_data = FileData(f)]

\* The sound directory holds files under the names Files; what a file
\* holds is named by the file it was copied from ("absent": no such file).
\* A file of the temp directory is named by a base name and the counter
\* get_unique_temp_path put after it (0: none).
NavInit ==
    [disk |-> [p \in Files |-> p],
     tmp |-> {},
     deleted_files |-> <<>>,
     audio_cache |-> [p \in Files |-> "none"],
     load_audio_cache |-> {},
     currently_selected_file |-> "none",
     plot |-> [data |-> NoBuf, fs |-> 0]]

\* AudioPlayer.set_audio
set_audio(s, audio) ==
    [s EXCEPT !.player_audio_data = FileData(audio),
              !.player.audio = FileData(audio)]

\* update_widgets: the navigator's own PlotWidget shows the samples
update_widgets(s, audio) ==
    [s EXCEPT !.nav.plot = [data |-> FileData(audio), fs |-> FileFs(audio)]]

handle_data_loaded(s, audio, file_path) ==
    LET s1 == IF s.nav.audio_cache[file_path] = "none"
              THEN [s EXCEPT !.nav.audio_cache[file_path] = audio]
              ELSE s
    IN update_widgets(set_audio(s1, audio), audio)

\* @lru_cache(maxsize=50): the body runs once for a path, every later call
\* with that path returns the remembered None
load_audio(s, file_path) ==
    IF file_path \in s.nav.load_audio_cache THEN s
    ELSE handle_data_loaded(
             [s EXCEPT !.nav.load_audio_cache = @ \cup {file_path}],
             s.nav.disk[file_path], file_path)

on_file_selected(s, file_path) ==
    LET s1 == [stop_playback(s) EXCEPT
                   !.nav.currently_selected_file = file_path]
    IN IF s.nav.disk[file_path] = "absent" THEN s1
       ELSE IF s.nav.audio_cache[file_path] = "none"
       THEN load_audio(s1, file_path)
       ELSE update_widgets(set_audio(s1, s.nav.audio_cache[file_path]),
                           s.nav.audio_cache[file_path])

TempNames(s) == {f.name : f \in s.nav.tmp}

get_unique_temp_path(s, base_name) ==
    LET free == {k \in 0..Cardinality(s.nav.tmp) :
                     <<base_name, k>> \notin TempNames(s)}
    IN <<base_name, CHOOSE k \in free : \A j \in free : k <= j>>

\* confirm is the answer to the question box
delete_file(s, file_path, confirm) ==
    IF s.nav.disk[file_path] = "absent" THEN s
    ELSE IF ~confirm THEN s
    ELSE LET temp_file_path == get_unique_temp_path(s, file_path)
             s1 == [s EXCEPT
                        !.nav.tmp = @ \cup {[name |-> temp_file_path,
                                             audio |-> s.nav.disk[file_path]]},
                        !.nav.disk[file_path] = "absent",
                        !.nav.audio_cache[file_path] = "none"]
             s2 == MetaDataDB_delete_file(s1, file_path)
         IN [s2 EXCEPT !.nav.deleted_files =
                           Append(@, [temp_path |-> temp_file_path,
                                      file_path |-> file_path])]

\* moved: shutil.move did not raise
undo_delete(s, moved) ==
    IF s.nav.deleted_files = <<>> THEN s
    ELSE LET entry == Last(s.nav.deleted_files)
             file == CHOOSE f \in s.nav.tmp : f.name = entry.temp_path
             s1 == [s EXCEPT !.nav.deleted_files = Front(@)]
         IN IF moved
            THEN [s1 EXCEPT !.nav.disk[entry.file_path] = file.audio,
                            !.nav.tmp = @ \ {file}]
            ELSE Report(s1, "critical")

\* upload_file: file_paths are the files picked in the dialog, each named
\* by its base name and what it holds
RECURSIVE upload_file(_, _)
upload_file(s, file_paths) ==
    IF file_paths = <<>> THEN s
    ELSE LET src == Head(file_paths)
             s1 == [s EXCEPT !.nav.disk[src.name] = src.audio]
         IN upload_file(insert_metadata(s1, src.name), Tail(file_paths))

----------------------------------------------------------------------------
(* Inputs *)

\* coordinates a drag can start or end at (the SpanSelector reports them
\* in increasing order, clipped to the x bounds of the axes)
SelPoints == {0, (3 * Res) \div 2, 4 * Res}

\* x coordinates of a click inside the axes
ClickPoints == {Res, 3 * Res}

FilterIndex == {0, 2, 3}
Semitones == {0, 12}
Decibels == {-20, 0}

----------------------------------------------------------------------------
(* Actions: one per handler *)

\* the editor page is shown once a file has been opened in it
EditorShown == data.shape # "none"

Do(op, r, e) ==
    /\ data' = r.data
    /\ fs' = r.fs
    /\ xlim' = r.xlim
    /\ selected_region' = r.selected_region
    /\ position_line' = r.position_line
    /\ undo_stack' = r.undo_stack
    /\ redo_stack' = r.redo_stack
    /\ audio_data' = r.audio_data
    /\ player_audio_data' = r.player_audio_data
    /\ initial_frame' = r.initial_frame
    /\ player' = r.player
    /\ nav' = r.nav
    /\ metaDataDB' = r.db
    /\ edits' = e
    /\ call' = [op |-> op, exc |-> r.exc, report |-> r.report]

Init ==
    /\ data = NoBuf
    /\ fs = 0
    /\ xlim = <<0, Res>>
    /\ selected_region = None
    /\ position_line = 0
    /\ undo_stack = <<>>
    /\ redo_stack = <<>>
    /\ audio_data = NoBuf
    /\ player_audio_data = NoBuf
    /\ initial_frame = 0
    /\ player = Idle
    /\ nav = NavInit
    /\ metaDataDB = DbInit
    /\ edits = 0
    /\ trk = [on |-> FALSE, B |-> NoBuf, F |-> NoBuf, n |-> 0, u |-> 0, r |-> 0,
              nop |-> {}, phase |-> 0, before |-> <<0, 0>>,
              zoomed |-> <<0, 0>>]
    /\ call = [op |-> "init", exc |-> "none", report |-> "none"]

\* a run follows one editing session: the file is opened once
OpenFile ==
    /\ ~EditorShown
    /\ \E f \in Files :
        \E r \in {go_to_sound_editor(St, f)} :
            Do("go_to_sound_editor", r, 0)

Select ==
    /\ EditorShown
    /\ \E xmin \in SelPoints, xmax \in SelPoints :
        /\ get_xbound(xlim)[1] <= xmin
        /\ xmin <= xmax
        /\ xmax <= get_xbound(xlim)[2]
        /\ \E r \in {on_select(St, xmin, xmax)} :
            Do("on_select", r, edits)

\* a right click reaches the widget twice: as the canvas's
\* button_press_event (Click) and as Qt's context-menu event (ContextMenu)
ContextMenu ==
    /\ EditorShown
    /\ \E r \in {contextMenuEvent(St)} : Do("contextMenuEvent", r, edits)

Click ==
    /\ EditorShown
    /\ \E button \in {1, 3}, inaxes \in BOOLEAN, xdata \in ClickPoints :
        /\ inaxes => (get_xbound(xlim)[1] <= xdata /\ xdata <= get_xbound(xlim)[2])
        /\ \E r \in {on_click(St, button, inaxes, xdata)} :
            Do("on_click", r, edits)

ZoomOut ==
    /\ EditorShown
    /\ \E r \in {zoom_out(St)} : Do("zoom_out", r, edits)

ZoomIn ==
    /\ EditorShown
    /\ \E r \in {zoom_into_selected(St)} :
        Do("zoom_into_selected", r, edits)

CropSelected ==
    /\ EditorShown
    /\ \E r \in {crop_selected(St)} :
        Do("crop_selected", r, edits)

CropUnselected ==
    /\ EditorShown
    /\ \E r \in {crop_unselected(St)} :
        Do("crop_unselected", r, edits)

Undo ==
    /\ EditorShown
    /\ \E r \in {undo_last_action(St)} :
        Do("undo_last_action", r, edits)

Redo ==
    /\ EditorShown
    /\ \E r \in {redo_last_action(St)} :
        Do("redo_last_action", r, edits)

Reset ==
    /\ EditorShown
    /\ \E r \in {reset_plot(St)} : Do("reset_plot", r, edits)

Filter ==
    /\ EditorShown
    /\ \E index \in FilterIndex :
        \E r \in {apply_filter(St, index)} :
            Do("apply_filter", r, edits + 1)

Pitch ==
    /\ EditorShown
    /\ \E semitones \in Semitones :
        \E r \in {change_pitch(St, semitones)} :
            Do("change_pitch", r, edits + 1)

Trim ==
    /\ EditorShown
    /\ \E decibel_level \in Decibels :
        \E r \in {trim_audio(St, decibel_level)} :
            Do("trim_audio", r, edits + 1)

\* the explored part of the state space
\* the transport buttons of AudioControlWidget, and the Save button
StartPlayback ==
    /\ EditorShown
    /\ \E fail \in Failures :
        \E r \in {start_playback(St, fail)} : Do("start_playback", r, edits)

StopPlayback ==
    /\ EditorShown
    /\ \E r \in {stop_playback(St)} : Do("stop_playback", r, edits)

Pause ==
    /\ EditorShown
    /\ \E r \in {pause(St)} : Do("pause", r, edits)

Resume ==
    /\ EditorShown
    /\ \E r \in {resume(St)} : Do("resume", r, edits)

Save ==
    /\ EditorShown
    /\ \E written \in BOOLEAN :
        \E r \in {save_audio(St, written)} : Do("save_audio", r, edits)

\* positions the mixer reports to a timer tick, in ms
TickMs == {0, 2, 5}

\* the rewind button of the editor page
PlayReverse ==
    /\ EditorShown
    /\ \E exported \in BOOLEAN :
        \E r \in {play_reverse(St, exported)} : Do("play_reverse", r, edits)

\* the 50 ms timer fires while it is active; the mixer reports a position
\* inside the samples it plays
Tick(position) ==
    /\ player.timer
    /\ position * fs <= Len(player.music.data.s) * 1000
    /\ \E r \in {emit_position(St, position)} :
        Do("emit_position", r, edits)

Timeout == \E position \in TickMs : Tick(position)

\* the mixer reaches the end of the samples it plays
MusicEnds ==
    /\ player.music.state = "playing"
    /\ \E r \in {[St EXCEPT !.player.music.state = "stopped"]} :
        Do("music_end", r, edits)

Bounded ==
    /\ Len(undo_stack) <= MaxUndo
    /\ Len(redo_stack) <= MaxRedo
    /\ edits <= MaxEdits

Next ==
    \/ OpenFile /\ Bounded' /\ UNCHANGED trk
    \/ Select /\ Bounded' /\ UNCHANGED trk
    \/ Click /\ Bounded' /\ UNCHANGED trk
    \/ ContextMenu /\ Bounded' /\ UNCHANGED trk
    \/ ZoomOut /\ Bounded' /\ UNCHANGED trk
    \/ ZoomIn /\ Bounded' /\ UNCHANGED trk
    \/ CropSelected /\ Bounded' /\ UNCHANGED trk
    \/ CropUnselected /\ Bounded' /\ UNCHANGED trk
    \/ Undo /\ Bounded' /\ UNCHANGED trk
    \/ Redo /\ Bounded' /\ UNCHANGED trk
    \/ Reset /\ Bounded' /\ UNCHANGED trk
    \/ edits < MaxEdits /\ Filter /\ Bounded' /\ UNCHANGED trk
    \/ edits < MaxEdits /\ Pitch /\ Bounded' /\ UNCHANGED trk
    \/ edits < MaxEdits /\ Trim /\ Bounded' /\ UNCHANGED trk

Spec == Init /\ [][Next]_vars

----------------------------------------------------------------------------
(* Round trips: from a file opened with empty history, trk counts the      *)
(* successful edits (n), then the undos (u), then the redos (r); B is the  *)
(* buffer at the start and F the buffer after the n-th edit.  The          *)
(* specification SpecRoundTrip explores these runs alone.                   *)

TrkOff == [on |-> FALSE, B |-> NoBuf, F |-> NoBuf, n |-> 0, u |-> 0, r |-> 0,
           nop |-> {}, phase |-> 0, before |-> <<0, 0>>, zoomed |-> <<0, 0>>]

TrkOpened ==
    trk' = IF undo_stack' = <<>> /\ redo_stack' = <<>>
           THEN [TrkOff EXCEPT !.on = TRUE, !.B = data', !.F = data']
           ELSE TrkOff

\* the edit succeeded: it raised nothing, reported no error and pushed one
\* entry
Succeeded ==
    /\ call'.exc = "none"
    /\ call'.report # "critical"
    /\ Len(undo_stack') = Len(undo_stack) + 1

TrkEdited ==
    trk' = IF trk.on /\ Succeeded /\ trk.u = 0 /\ trk.r = 0
           THEN [trk EXCEPT !.n = @ + 1, !.F = data']
           ELSE TrkOff

\* selections are made between the edits (the crops need one)
TrkSelected == trk' = IF trk.on /\ trk.u = 0 THEN trk ELSE TrkOff

\* an undo (redo) that finds its stack empty is not counted; nop keeps
\* which of the two has been called so before the first edit
TrkUndone ==
    trk' = IF trk.on /\ undo_stack = <<>>
           THEN (IF trk.n = 0
                 THEN [trk EXCEPT !.nop = @ \cup {"undo_last_action"}]
                 ELSE trk)
           ELSE IF trk.on /\ trk.r = 0 /\ trk.u < trk.n
           THEN [trk EXCEPT !.u = @ + 1]
           ELSE TrkOff

TrkRedone ==
    trk' = IF trk.on /\ redo_stack = <<>>
           THEN (IF trk.n = 0
                 THEN [trk EXCEPT !.nop = @ \cup {"redo_last_action"}]
                 ELSE trk)
           ELSE IF trk.on /\ trk.u = trk.n /\ trk.r < trk.n
           THEN [trk EXCEPT !.r = @ + 1]
           ELSE TrkOff

InRoundTrip == trk.on /\ trk.n <= MaxRoundTrip

NextRoundTrip ==
    \/ OpenFile /\ TrkOpened /\ InRoundTrip'
    \/ Select /\ TrkSelected /\ InRoundTrip'
    \/ CropSelected /\ TrkEdited /\ InRoundTrip'
    \/ CropUnselected /\ TrkEdited /\ InRoundTrip'
    \/ Undo /\ TrkUndone /\ InRoundTrip'
    \/ Redo /\ TrkRedone /\ InRoundTrip'
    \/ Filter /\ TrkEdited /\ InRoundTrip'
    \/ Pitch /\ TrkEdited /\ InRoundTrip'
    \/ Trim /\ TrkEdited /\ InRoundTrip'

SpecRoundTrip == Init /\ [][NextRoundTrip]_vars

----------------------------------------------------------------------------
(* Zooming in and out: phase 1 after zoom_into_selected on a selection,    *)
(* 2 after the zoom_out that follows it, 3 and 4 after the first and the   *)
(* second undo that follow; before and zoomed are the view ranges before   *)
(* and after the zoom-in, B the buffer.  Any other step ends the sequence. *)

ZoomedIn ==
    trk' = IF selected_region # None
           THEN [TrkOff EXCEPT !.phase = 1, !.before = xlim,
                               !.zoomed = xlim', !.B = data]
           ELSE TrkOff

ZoomedOut ==
    trk' = IF trk.phase = 1 THEN [trk EXCEPT !.phase = 2] ELSE TrkOff

\* phase 5: the undo follows the zoom-in at once
ZoomUndone ==
    trk' = IF trk.phase \in {2, 3} THEN [trk EXCEPT !.phase = @ + 1]
           ELSE IF trk.phase = 1 THEN [trk EXCEPT !.phase = 5]
           ELSE TrkOff

NextZoom ==
    \/ OpenFile /\ Bounded' /\ trk' = TrkOff
    \/ Select /\ Bounded' /\ trk' = TrkOff
    \/ ZoomIn /\ Bounded' /\ ZoomedIn
    \/ ZoomOut /\ Bounded' /\ ZoomedOut
    \/ Undo /\ Bounded' /\ ZoomUndone
    \/ Redo /\ Bounded' /\ trk' = TrkOff

SpecZoom == Init /\ [][NextZoom]_vars

----------------------------------------------------------------------------
(* Calls of on_select with any pair of coordinates, in either order, with  *)
(* the crops and undo around them; trk keeps the arguments of the call     *)
(* just made.                                                               *)

SelectDirect(xmin, xmax) ==
    /\ EditorShown
    /\ \E r \in {on_select(St, xmin, xmax)} : Do("on_select", r, edits)

Selected(xmin, xmax) == trk' = [phase |-> 6, args |-> <<xmin, xmax>>]

NextSelect ==
    \/ OpenFile /\ Bounded' /\ trk' = TrkOff
    \/ \E xmin \in SelPoints, xmax \in SelPoints :
          SelectDirect(xmin, xmax) /\ Bounded' /\ Selected(xmin, xmax)
    \/ CropSelected /\ Bounded' /\ trk' = TrkOff
    \/ CropUnselected /\ Bounded' /\ trk' = TrkOff
    \/ Undo /\ Bounded' /\ trk' = TrkOff

SpecSelect == Init /\ [][NextSelect]_vars

----------------------------------------------------------------------------
(* Array objects.  A buffer value says what the samples are, not which     *)
(* numpy array holds them; trk names the array object behind the live      *)
(* buffer and behind every stack entry.  np.copy, a slice and the          *)
(* unpacking of a bare array create new objects, an assignment or an       *)
(* append of self.data does not.                                            *)

AliasOpened ==
    trk' = [phase |-> 7, live |-> 1, undo |-> <<>>, redo |-> <<>>,
            next |-> 2]

\* the copy appended to the undo stack, then the slice made the live buffer
AliasCropped ==
    trk' = IF selected_region = None THEN trk
           ELSE IF call'.exc # "none"
           THEN [trk EXCEPT !.undo = Append(@, trk.next),
                            !.next = @ + 1]
           ELSE [trk EXCEPT !.undo = Append(@, trk.next),
                            !.live = trk.next + 1,
                            !.next = @ + 2]

\* self.data itself appended to both stacks
AliasZoomedOut ==
    trk' = IF data.shape = "array" /\ call'.exc = "none"
           THEN [trk EXCEPT !.undo = Append(@, trk.live),
                            !.redo = Append(@, trk.live)]
           ELSE trk

\* the popped entry's array becomes the live buffer (the first scalar of a
\* bare two-element array is a new object), a copy goes to the redo stack
AliasUndone ==
    trk' = IF undo_stack = <<>> THEN trk
           ELSE LET top == Last(undo_stack)
                    popped == [trk EXCEPT !.undo = Front(@)]
                IN IF ~Unpacks(top) THEN popped
                   ELSE [popped EXCEPT
                           !.redo = Append(@, trk.next),
                           !.live = IF top.tuple THEN Last(trk.undo)
                                    ELSE trk.next + 1,
                           !.next = @ + 2]

\* self.data, _ = undo_stack[0]: the entry stays on the stack
AliasReset ==
    trk' = IF undo_stack = <<>> THEN trk
           ELSE [trk EXCEPT !.live = trk.undo[1]]

NextAlias ==
    \/ OpenFile /\ Bounded' /\ AliasOpened
    \/ Select /\ Bounded' /\ UNCHANGED trk
    \/ CropSelected /\ Bounded' /\ AliasCropped /\ trk'.next <= MaxObjects
    \/ ZoomOut /\ Bounded' /\ AliasZoomedOut
    \/ Undo /\ Bounded' /\ AliasUndone /\ trk'.next <= MaxObjects
    \/ Reset /\ Bounded' /\ AliasReset

SpecAlias == Init /\ [][NextAlias]_vars

----------------------------------------------------------------------------
(* Sessions that empty the buffer: two crops take the undo stack to        *)
(* MaxUndo, the operation tried on the empty buffer may push once more.    *)

Deeper ==
    /\ Len(undo_stack) <= MaxUndo + 1
    /\ Len(redo_stack) <= MaxRedo
    /\ edits <= MaxEdits

NextEmpty ==
    \/ OpenFile /\ Deeper' /\ UNCHANGED trk
    \/ Select /\ Deeper' /\ UNCHANGED trk
    \/ CropSelected /\ Deeper' /\ UNCHANGED trk
    \/ CropUnselected /\ Deeper' /\ UNCHANGED trk
    \/ ZoomOut /\ Deeper' /\ UNCHANGED trk
    \/ edits < MaxEdits /\ Filter /\ Deeper' /\ UNCHANGED trk
    \/ edits < MaxEdits /\ Pitch /\ Deeper' /\ UNCHANGED trk
    \/ edits < MaxEdits /\ Trim /\ Deeper' /\ UNCHANGED trk

SpecEmpty == Init /\ [][NextEmpty]_vars

----------------------------------------------------------------------------
(* Crops and zoom-in chosen from the menu with and without a selection;    *)
(* trk marks the calls made while no selection was active.                  *)

TriedWithoutSelection ==
    trk' = IF selected_region = None THEN [TrkOff EXCEPT !.phase = 8]
           ELSE TrkOff

NextCrop ==
    \/ OpenFile /\ Bounded' /\ trk' = TrkOff
    \/ Select /\ Bounded' /\ trk' = TrkOff
    \/ ZoomIn /\ Bounded' /\ TriedWithoutSelection
    \/ CropSelected /\ Bounded' /\ TriedWithoutSelection
    \/ CropUnselected /\ Bounded' /\ TriedWithoutSelection
    \/ Undo /\ Bounded' /\ trk' = TrkOff

SpecCrop == Init /\ [][NextCrop]_vars

----------------------------------------------------------------------------
(* Sessions of editor edits, undo, redo and reset: one edit more than      *)
(* MaxEdits, so that an edit can follow an undone edit.  trk.B is the      *)
(* buffer as loaded.                                                        *)

Again ==
    /\ Len(undo_stack) <= MaxUndo
    /\ Len(redo_stack) <= MaxRedo
    /\ edits <= MaxEdits + 1

NextReset ==
    \/ OpenFile /\ Again' /\ TrkOpened
    \/ edits <= MaxEdits /\ Pitch /\ Again' /\ UNCHANGED trk
    \/ edits <= MaxEdits /\ Trim /\ Again' /\ UNCHANGED trk
    \/ Undo /\ Again' /\ UNCHANGED trk
    \/ Redo /\ Again' /\ UNCHANGED trk
    \/ Reset /\ Again' /\ UNCHANGED trk

SpecReset == Init /\ [][NextReset]_vars

----------------------------------------------------------------------------
(* Playback: the transport buttons, the timer, the mixer and the Save      *)
(* button, with any step of start_playback failing.  SpecInFlight has the  *)
(* transport buttons next to selection, crop, pitch shift, undo and redo.  *)

FewFiles == Bounded /\ player.disk <= MaxTempFiles

NextPlayback ==
    \/ OpenFile /\ FewFiles' /\ UNCHANGED trk
    \/ Select /\ FewFiles' /\ UNCHANGED trk
    \/ StartPlayback /\ FewFiles' /\ UNCHANGED trk
    \/ StopPlayback /\ FewFiles' /\ UNCHANGED trk
    \/ Pause /\ FewFiles' /\ UNCHANGED trk
    \/ Resume /\ FewFiles' /\ UNCHANGED trk
    \/ Timeout /\ FewFiles' /\ UNCHANGED trk
    \/ MusicEnds /\ FewFiles' /\ UNCHANGED trk
    \/ Save /\ FewFiles' /\ UNCHANGED trk

SpecPlayback == Init /\ [][NextPlayback]_vars

NextInFlight ==
    \/ OpenFile /\ FewFiles' /\ UNCHANGED trk
    \/ Select /\ FewFiles' /\ UNCHANGED trk
    \/ CropSelected /\ FewFiles' /\ UNCHANGED trk
    \/ edits < MaxEdits /\ Pitch /\ FewFiles' /\ UNCHANGED trk
    \/ Undo /\ FewFiles' /\ UNCHANGED trk
    \/ Redo /\ FewFiles' /\ UNCHANGED trk
    \/ StartPlayback /\ FewFiles' /\ UNCHANGED trk
    \/ StopPlayback /\ FewFiles' /\ UNCHANGED trk
    \/ Pause /\ FewFiles' /\ UNCHANGED trk
    \/ Resume /\ FewFiles' /\ UNCHANGED trk
    \/ MusicEnds /\ FewFiles' /\ UNCHANGED trk

SpecInFlight == Init /\ [][NextInFlight]_vars

----------------------------------------------------------------------------
(* The editor's edits as functions of the buffer: the run starts with a    *)
(* file of any samples over Amps (and the trim example) already opened, an *)
(* edit is called with any argument, and trk keeps the argument and the    *)
(* buffer the edit was called on.                                           *)

\* amplitudes: a peak, a sample one tenth of it, one between, and silence
Amps == {-10, 0, 1, 5}

\* the samples 0.1, 0.5, -0.9, 0.05, 0.01 in hundredths (the edits compare
\* ratios of samples, so the unit of amplitude does not matter)
TrimExample == <<10, 50, -90, 5, 1>>

RECURSIVE Seqs(_)
Seqs(n) ==
    IF n = 0 THEN {<<>>}
    ELSE {Append(q, a) : q \in Seqs(n - 1), a \in Amps}

\* every short buffer, the example, and one buffer long enough to filter
Buffers ==
    UNION {Seqs(n) : n \in 1..MaxLen}
        \cup {TrimExample, FileData("long").s}

KernelSemitones == {-12, 0, 12}
KernelIndex == {-1, 0, 1, 2, 3}

\* the state go_to_sound_editor leaves for a file of the samples x
InitKernel ==
    \E x \in Buffers :
        /\ data = Arr(x)
        /\ fs = FileFs("short")
        /\ xlim = set_xlim(0, Len(x) * Res)
        /\ selected_region = None
        /\ position_line = 0
        /\ undo_stack = <<>>
        /\ redo_stack = <<>>
        /\ audio_data = Arr(x)
        /\ player_audio_data = Arr(x)
        /\ initial_frame = 0
        /\ player = [Idle EXCEPT !.audio = Arr(x)]
        /\ nav = NavInit
        /\ metaDataDB = DbInit
        /\ edits = 0
        /\ trk = TrkOff
        /\ call = [op |-> "go_to_sound_editor", exc |-> "none",
                   report |-> "none"]

Called(arg) == trk' = [phase |-> 9, arg |-> arg, x |-> audio_data.s]

NextKernel ==
    \/ \E decibel_level \in Decibels :
          /\ edits < MaxEdits
          /\ \E r \in {trim_audio(St, decibel_level)} :
                Do("trim_audio", r, edits + 1)
          /\ Called(decibel_level)
    \/ \E semitones \in KernelSemitones :
          /\ edits < MaxEdits
          /\ \E r \in {change_pitch(St, semitones)} :
                Do("change_pitch", r, edits + 1)
          /\ Called(semitones)
    \/ \E index \in KernelIndex :
          /\ edits < MaxEdits
          /\ \E r \in {apply_filter(St, index)} :
                Do("apply_filter", r, edits + 1)
          /\ Called(index)

SpecKernel == InitKernel /\ [][NextKernel]_vars

-----------------------------------------------------------------------------
(* The playhead: selections, clicks and one pitch shift around playback,   *)
(* with trk keeping the position the mixer reported to the last timer tick *)
(* (t) and the position emit_position passed on (ms).                       *)

Ticked(position) ==
    trk' = [phase |-> 10, t |-> position,
            ms |-> position + initial_offset(initial_frame, fs)]

NextPlayhead ==
    \/ OpenFile /\ FewFiles' /\ UNCHANGED trk
    \/ Select /\ FewFiles' /\ UNCHANGED trk
    \/ Click /\ FewFiles' /\ UNCHANGED trk
    \/ edits < MaxEdits /\ Pitch /\ FewFiles' /\ UNCHANGED trk
    \/ StartPlayback /\ FewFiles' /\ UNCHANGED trk
    \/ StopPlayback /\ FewFiles' /\ UNCHANGED trk
    \/ MusicEnds /\ FewFiles' /\ UNCHANGED trk
    \/ \E position \in TickMs :
          Tick(position) /\ FewFiles' /\ Ticked(position)

SpecPlayhead == Init /\ [][NextPlayhead]_vars

-----------------------------------------------------------------------------
(* Mouse clicks on the plot.  A press of the secondary button reaches the  *)
(* widget as the canvas's button_press_event (on_click) and as Qt's        *)
(* context-menu event (contextMenuEvent); trk keeps the button and the     *)
(* place of the event just handled.                                         *)

ClickAt(button, inaxes, xdata) ==
    /\ EditorShown
    /\ inaxes => (get_xbound(xlim)[1] <= xdata /\ xdata <= get_xbound(xlim)[2])
    /\ \E r \in {on_click(St, button, inaxes, xdata)} :
        Do("on_click", r, edits)

Clicked(button, inaxes, xdata) ==
    trk' = [phase |-> 11, button |-> button, inaxes |-> inaxes,
            xdata |-> xdata]

NextClick ==
    \/ OpenFile /\ Bounded' /\ trk' = TrkOff
    \/ Select /\ Bounded' /\ trk' = TrkOff
    \/ CropSelected /\ Bounded' /\ trk' = TrkOff
    \/ Undo /\ Bounded' /\ trk' = TrkOff
    \/ \E button \in {1, 3}, inaxes \in BOOLEAN, xdata \in ClickPoints :
          ClickAt(button, inaxes, xdata) /\ Bounded'
              /\ Clicked(button, inaxes, xdata)
    \/ \E xdata \in ClickPoints :
          ContextMenu /\ Bounded' /\ Clicked(3, TRUE, xdata)

SpecClick == Init /\ [][NextClick]_vars

-----------------------------------------------------------------------------
(* The navigator page: clicks on files of the tree, soft deletes and their *)
(* undo, uploads, and the play button.  trk keeps the path of the file     *)
(* just clicked, or the files and metadata rows as they were before the    *)
(* delete just made.                                                        *)

\* the tree lists the files that exist
FileSelected(file_path) ==
    /\ nav.disk[file_path] # "absent"
    /\ \E r \in {on_file_selected(St, file_path)} :
        Do("on_file_selected", r, edits)

DeleteFile(file_path) ==
    /\ nav.disk[file_path] # "absent"
    /\ \E confirm \in BOOLEAN :
        \E r \in {delete_file(St, file_path, confirm)} :
            Do("delete_file", r, edits)

UndoDelete ==
    \E moved \in BOOLEAN :
        \E r \in {undo_delete(St, moved)} : Do("undo_delete", r, edits)

\* the dialog is cancelled, or one file is picked
Uploads == {<<>>} \cup {<<[name |-> n, audio |-> a]>> : n \in Files, a \in Files}

Upload ==
    \E file_paths \in Uploads :
        \E r \in {upload_file(St, file_paths)} : Do("upload_file", r, edits)

\* the play button, with nothing going wrong
Play ==
    \E r \in {start_playback(St, "none")} : Do("start_playback", r, edits)

NavBounded ==
    /\ Cardinality(nav.tmp) <= MaxDeleted
    /\ metaDataDB.files_seq <= MaxRows
    /\ player.disk <= MaxTempFiles

Picked(file_path) == trk' = [phase |-> 12, file_path |-> file_path]

Deleted(file_path) ==
    trk' = IF nav'.deleted_files = nav.deleted_files THEN TrkOff
           ELSE [phase |-> 13, file_path |-> file_path, disk |-> nav.disk,
                 audio_files |-> metaDataDB.audio_files,
                 deleted_files |-> nav.deleted_files]

NextNavigator ==
    \/ \E file_path \in Files :
          FileSelected(file_path) /\ NavBounded' /\ Picked(file_path)
    \/ \E file_path \in Files :
          DeleteFile(file_path) /\ NavBounded' /\ Deleted(file_path)
    \/ UndoDelete /\ NavBounded' /\ trk' = TrkOff
    \/ Upload /\ NavBounded' /\ trk' = TrkOff
    \/ Play /\ NavBounded' /\ trk' = TrkOff

SpecNavigator == Init /\ [][NextNavigator]_vars

-----------------------------------------------------------------------------
(* The tag calls of MetaDataDB in any order, on the two files and on a     *)
(* path without a row; trk keeps the tag of the call just made.             *)

TagPaths == Files \cup {"unknown"}

AddTag(tag_name) ==
    \E r \in {add_tag(St, tag_name)} : Do("add_tag", r, edits)

AddTagToFile(file_path, tag_name) ==
    \E r \in {add_tag_to_file(St, file_path, tag_name)} :
        Do("add_tag_to_file", r, edits)

RemoveTagFromFile(file_path, tag_name) ==
    \E r \in {remove_tag_from_file(St, file_path, tag_name)} :
        Do("remove_tag_from_file", r, edits)

RemoveTag(tag_name) ==
    \E r \in {remove_tag(St, tag_name)} : Do("remove_tag", r, edits)

TagsBounded ==
    /\ metaDataDB.tags_seq <= MaxRows
    /\ Len(metaDataDB.file_tags) <= MaxRows

Tagged(tag_name) == trk' = [phase |-> 14, tag_name |-> tag_name]

NextTags ==
    \/ \E tag_name \in Tags :
          AddTag(tag_name) /\ TagsBounded' /\ Tagged(tag_name)
    \/ \E file_path \in TagPaths, tag_name \in Tags :
          AddTagToFile(file_path, tag_name) /\ TagsBounded'
              /\ Tagged(tag_name)
    \/ \E file_path \in TagPaths, tag_name \in Tags :
          RemoveTagFromFile(file_path, tag_name) /\ TagsBounded'
              /\ Tagged(tag_name)
    \/ \E tag_name \in Tags :
          RemoveTag(tag_name) /\ TagsBounded' /\ Tagged(tag_name)

SpecTags == Init /\ [][NextTags]_vars

-----------------------------------------------------------------------------
(* Editing sessions one after the other: the back button shows the         *)
(* navigator again (show_file_nav_widget only switches the page), and Edit *)
(* File opens the next file in the same SoundEditor and PlotWidget.  trk   *)
(* keeps the file of the running session.  The edits are crops to the      *)
(* selection, which keep a run of consecutive samples.                      *)

OpenNext(f) ==
    \E r \in {go_to_sound_editor(St, f)} : Do("go_to_sound_editor", r, 0)

Session(f) == trk' = [phase |-> 15, file |-> f]

NextSessions ==
    \/ \E f \in Files : OpenNext(f) /\ Bounded' /\ Session(f)
    \/ Select /\ Bounded' /\ UNCHANGED trk
    \/ CropSelected /\ Bounded' /\ UNCHANGED trk
    \/ Undo /\ Bounded' /\ UNCHANGED trk
    \/ Redo /\ Bounded' /\ UNCHANGED trk
    \/ Reset /\ Bounded' /\ UNCHANGED trk

SpecSessions == Init /\ [][NextSessions]_vars

-----------------------------------------------------------------------------
(* Undo and redo in pairs, around selections, zooms and crops.  At an undo *)
(* or a redo trk keeps which of the two it was, whether its stack had an   *)
(* entry, and the buffer and the view range before it.                      *)

Stepped(op, stack) ==
    trk' = [phase |-> 16, op |-> op, had |-> stack # <<>>,
            data |-> data, xlim |-> xlim]

NextPairs ==
    \/ OpenFile /\ Bounded' /\ trk' = TrkOff
    \/ Select /\ Bounded' /\ trk' = TrkOff
    \/ ZoomIn /\ Bounded' /\ trk' = TrkOff
    \/ ZoomOut /\ Bounded' /\ trk' = TrkOff
    \/ CropSelected /\ Bounded' /\ trk' = TrkOff
    \/ Undo /\ Bounded' /\ Stepped("undo", undo_stack)
    \/ Redo /\ Bounded' /\ Stepped("redo", redo_stack)

SpecPairs == Init /\ [][NextPairs]_vars

-----------------------------------------------------------------------------
(* Playback to its end.  The buttons of the transport row are pressed at   *)
(* most MaxPresses times (trk counts them), the mixer comes to the end of  *)
(* what it plays (the audio is finite: weak fairness on its end), and the  *)
(* 50 ms timer keeps firing while it is active: weak fairness on its tick. *)

Pressed ==
    /\ trk.phase \in {0, 17}
    /\ trk' = [phase |-> 17, presses |-> IF trk.phase = 17
                                         THEN trk.presses + 1 ELSE 1]
    /\ trk'.presses <= MaxPresses

TimerTick == Timeout /\ FewFiles' /\ UNCHANGED trk

MusicRunsOut == MusicEnds /\ FewFiles' /\ UNCHANGED trk

NextFinish ==
    \/ OpenFile /\ FewFiles' /\ UNCHANGED trk
    \/ Select /\ FewFiles' /\ UNCHANGED trk
    \/ Play /\ EditorShown /\ FewFiles' /\ Pressed
    \/ PlayReverse /\ FewFiles' /\ Pressed
    \/ Pause /\ FewFiles' /\ Pressed
    \/ Resume /\ FewFiles' /\ Pressed
    \/ StopPlayback /\ FewFiles' /\ Pressed
    \/ MusicRunsOut
    \/ TimerTick

SpecFinish ==
    Init /\ [][NextFinish]_vars /\ WF_vars(TimerTick) /\ WF_vars(MusicRunsOut)

----------------------------------------------------------------------------
(* Properties *)

\* C1: from a loaded buffer B with empty history, after n successful edits
\* (filter, pitch, trim, the two crops, in any order) n undos make the
\* plotted buffer equal to B, and n redos after them make it equal to the
\* buffer that was active after the n-th edit.
UndoRedoRoundTrip ==
    /\ (trk.on /\ trk.n > 0 /\ trk.u = trk.n /\ trk.r = 0) => data = trk.B
    /\ (trk.on /\ trk.n > 0 /\ trk.r = trk.n) => data = trk.F

\* two edits that changed the buffer, undone twice and redone twice
RoundTripDone ==
    /\ trk.on
    /\ trk.n = 2
    /\ trk.r = 2
    /\ call.op = "redo_last_action"
    /\ trk.F # trk.B

\* the step is an undo or a redo that found its stack empty
Underflow ==
    \/ call'.op = "undo_last_action" /\ undo_stack = <<>>
    \/ call'.op = "redo_last_action" /\ redo_stack = <<>>

\* C9: undo_last_action on an empty undo stack and redo_last_action on an
\* empty redo stack change nothing (buffer, view range, selection, playhead,
\* player source, both stacks) and raise nothing.
UnderflowIsNoOp ==
    [][Underflow =>
        /\ UNCHANGED <<data, xlim, selected_region, position_line,
                       player_audio_data, undo_stack, redo_stack>>
        /\ call'.exc = "none"]_vars

\* both handlers have run on their empty stack, with a selection active
\* and the player holding the selected segment
UnderflowDone ==
    /\ trk.nop = {"undo_last_action", "redo_last_action"}
    /\ call.op = "redo_last_action"
    /\ undo_stack = <<>>
    /\ redo_stack = <<>>
    /\ selected_region # None
    /\ player_audio_data # data

\* the edits of the buffer, and the actions that push history
EditOps == {"apply_filter", "change_pitch", "trim_audio", "crop_selected",
            "crop_unselected"}
MutatingOps == EditOps \cup {"zoom_into_selected", "zoom_out"}

\* the handler ended normally and reported no error
Normal == call'.exc = "none" /\ call'.report # "critical"

\* the handler added exactly one entry on top of the undo stack
PushedOne ==
    /\ Len(undo_stack') = Len(undo_stack) + 1
    /\ Front(undo_stack') = undo_stack

\* C2: every successful mutating action (the edits, zoom_into_selected,
\* zoom_out) leaves the redo stack empty after capturing the prior state on
\* the undo stack, so a redo after undo + new action finds nothing to redo.
MutatingActionClearsRedo ==
    [][(call'.op \in MutatingOps /\ Normal /\ PushedOne)
          => redo_stack' = <<>>]_vars

\* C3: each edit is atomic: it succeeds, replacing the buffer and adding
\* exactly one undo entry, or it leaves the buffer, the view range, the
\* selection and both stacks exactly as they were.
EditsAreAtomic ==
    [][call'.op \in EditOps =>
        \/ Normal /\ PushedOne
        \/ UNCHANGED <<data, xlim, selected_region, undo_stack,
                       redo_stack>>]_vars

\* C4: in every reachable state an active selection lies inside the buffer,
\* 0 <= start < end <= length.
SelectionInsideBuffer ==
    selected_region # None =>
        /\ 0 <= selected_region[1]
        /\ selected_region[1] < selected_region[2]
        /\ Sized(data)
        /\ selected_region[2] <= Len(data.s) * Res

\* the handlers that replace the plotted buffer
ReplacingOps == EditOps \cup {"undo_last_action", "redo_last_action",
                              "reset_plot", "go_to_sound_editor"}

\* C5: whenever the buffer is replaced (by an edit, undo, redo, reset or a
\* file load) there is no selection immediately afterwards.
ReplacedBufferHasNoSelection ==
    [][(call'.op \in ReplacingOps /\ data' # data)
          => selected_region' = None]_vars

\* C6: no action lets an exception escape its handler; undo and redo
\* complete normally on every entry the actions put on the stacks.
NoExceptionEscapes == call.exc = "none"

\* C7: with a non-empty undo stack, undo_last_action removes exactly the top
\* entry, pushes the current (buffer, view range) on the redo stack and makes
\* the popped entry's buffer and view range the active ones.
UndoRestoresTopEntry ==
    [][(call'.op = "undo_last_action" /\ undo_stack # <<>>) =>
        /\ undo_stack' = Front(undo_stack)
        /\ redo_stack' = Append(redo_stack, Entry(data, xlim))
        /\ Last(undo_stack).tuple
        /\ data' = Last(undo_stack).data
        /\ xlim' = Last(undo_stack).view]_vars

\* C8: with a non-empty redo stack, redo_last_action removes exactly the top
\* entry, pushes the current (buffer, view range) on the undo stack and makes
\* the popped entry's buffer and view range the active ones.
RedoRestoresTopEntry ==
    [][(call'.op = "redo_last_action" /\ redo_stack # <<>>) =>
        /\ redo_stack' = Front(redo_stack)
        /\ undo_stack' = Append(undo_stack, Entry(data, xlim))
        /\ Last(redo_stack).tuple
        /\ data' = Last(redo_stack).data
        /\ xlim' = Last(redo_stack).view]_vars

\* what redo_last_action does on the entries that undo_last_action and the
\* edits push (the tuples)
RedoRestoresTupleEntry ==
    [][(call'.op = "redo_last_action" /\ redo_stack # <<>>
            /\ Last(redo_stack).tuple /\ Sized(Last(redo_stack).data)) =>
        /\ redo_stack' = Front(redo_stack)
        /\ undo_stack' = Append(undo_stack, Entry(data, xlim))
        /\ data' = Last(redo_stack).data
        /\ xlim' = Last(redo_stack).view]_vars

\* C10: after zoom_into_selected on a selection followed by zoom_out the
\* view range is the full extent (0, length); the first undo brings back the
\* zoomed view range, the second the view range before the zoom-in, and the
\* buffer is the same throughout.
ZoomInOutIsUndoable ==
    /\ trk.phase \in {1, 2, 3, 4} => data = trk.B
    /\ trk.phase = 2 => (Sized(data) /\ xlim = <<0, Len(data.s) * Res>>)
    /\ trk.phase = 3 => xlim = trk.zoomed
    /\ trk.phase = 4 => xlim = trk.before

\* C11: from any view range V, zoom_into_selected changes only the view
\* range (the samples stay, one entry (buffer, V) is pushed), and an undo
\* that follows restores the view range to exactly V.
ZoomInIsUndoneToView ==
    /\ trk.phase = 1 =>
          /\ data = trk.B
          /\ undo_stack # <<>>
          /\ Last(undo_stack) = Entry(trk.B, trk.before)
    /\ trk.phase = 5 => (data = trk.B /\ xlim = trk.before)

\* the step ran clear_selection to its end: a left click outside the
\* selection, a drag no wider than one sample, or a zoom
ClearSelectionRan ==
    /\ call'.exc = "none"
    /\ \/ call'.op = "on_click" /\ selected_region # None
                                /\ selected_region' = None
       \/ call'.op = "on_select" /\ selected_region' = None
       \/ call'.op = "zoom_out"
       \/ call'.op = "zoom_into_selected" /\ selected_region # None

\* C12: clear_selection leaves no selection, the player's source equal to
\* the full current buffer and the player's initial frame offset 0.
ClearSelectionResetsPlayer ==
    [][ClearSelectionRan =>
        /\ selected_region' = None
        /\ player_audio_data' = data'
        /\ initial_frame' = 0]_vars

\* C13: on_select(x0, x1) with a width x1 - x0 <= 1 (zero and negative
\* widths too) leaves no selection; with a width > 1 the selection is
\* (x0, x1), the player's source is samples[int(x0):int(x1)] of the current
\* buffer and the player's initial frame offset is int(x0).
OnSelectOutcome ==
    trk.phase = 6 =>
        LET x0 == trk.args[1]
            x1 == trk.args[2]
        IN IF x1 - x0 > Res
           THEN /\ selected_region = <<x0, x1>>
                /\ player_audio_data = Arr(Slice(data.s, int(x0), int(x1)))
                /\ initial_frame = int(x0)
           ELSE selected_region = None

\* a selection that starts after the first sample, made on a cropped buffer
OnSelectDone ==
    /\ trk.phase = 6
    /\ trk.args = <<(3 * Res) \div 2, 4 * Res>>
    /\ selected_region # None
    /\ initial_frame = 1
    /\ undo_stack # <<>>

Objects == trk.undo \o trk.redo

\* C14: every entry of the undo and redo stacks holds an array object of its
\* own: none is the array object of the live buffer, and no two entries
\* hold the same array object.
StackEntriesAreOwnCopies ==
    trk.phase = 7 =>
        /\ \A i \in DOMAIN Objects : Objects[i] # trk.live
        /\ \A i, j \in DOMAIN Objects : i # j => Objects[i] # Objects[j]

\* the object names follow the stacks entry by entry
ObjectsFollowStacks ==
    trk.phase = 7 =>
        /\ Len(trk.undo) = Len(undo_stack)
        /\ Len(trk.redo) = Len(redo_stack)

\* C15: each edit (apply_filter, change_pitch, trim_audio, crop_selected,
\* crop_unselected) pushes onto the undo stack exactly the buffer and the
\* view range the plot displayed immediately before the edit, also when the
\* edit follows a crop, an undo, a redo or a reset.
EditsPushDisplayedState ==
    [][call'.op \in EditOps /\ Normal /\ PushedOne =>
           Last(undo_stack') = Entry(data, xlim)]_vars

PushingOps == MutatingOps \ {"zoom_into_selected"}

\* the plot shows no buffer, or a buffer of zero samples
ZeroSamples == data.shape = "none" \/ (Sized(data) /\ Len(data.s) = 0)

\* C16: with no buffer loaded or a current buffer of zero samples, every
\* history-pushing operation (apply_filter, change_pitch, trim_audio,
\* zoom_out, crop_selected, crop_unselected) aborts: buffer, undo stack and
\* redo stack are unchanged.
EmptyBufferAborts ==
    [][call'.op \in PushingOps /\ ZeroSamples =>
           UNCHANGED <<data, undo_stack, redo_stack>>]_vars

SelectionOps == {"crop_selected", "crop_unselected", "zoom_into_selected"}

\* C17: crop_selected, crop_unselected and zoom_into_selected invoked while
\* no selection is active change nothing: buffer, view range, undo stack
\* and redo stack are as before.
NoSelectionIsNoOp ==
    [][call'.op \in SelectionOps /\ selected_region = None =>
           UNCHANGED <<data, xlim, undo_stack, redo_stack>>]_vars

\* a crop was chosen with no selection, after an earlier crop and an undo
NoSelectionTried ==
    /\ trk.phase = 8
    /\ call.op = "crop_selected"
    /\ undo_stack # <<>>
    /\ redo_stack # <<>>

\* C18: whenever the undo stack is non-empty, reset_plot makes the active
\* buffer equal to the buffer as originally loaded, whatever edits, undos
\* and redos were performed in between.
ResetRestoresLoadedBuffer ==
    [][call'.op = "reset_plot" /\ undo_stack # <<>> /\ trk.on =>
           data' = trk.B]_vars

\* C19: a start_playback that fails to write, load or play its temporary
\* file leaves the player as before the call (playing flag false, timer not
\* running, no temporary file retained); a save_audio that fails leaves the
\* buffer and the history unchanged.
IOFailureLeavesStateUnchanged ==
    [][/\ call'.op = "start_playback" /\ call'.report = "error" =>
              UNCHANGED player
       /\ call'.op = "save_audio" /\ call'.report = "critical" =>
              UNCHANGED <<data, audio_data, undo_stack, redo_stack>>]_vars

SourceOps == {"on_select", "crop_selected", "change_pitch",
              "undo_last_action", "redo_last_action"}

\* C20: the samples being played are those handed to the mixer when
\* start_playback was called (the full buffer or the selected sub-range):
\* a selection change, crop, edit, undo or redo made while the playback is
\* in flight does not change what it plays.
InFlightPlaybackIsFixed ==
    [][/\ call'.op = "start_playback" /\ call'.report = "none" =>
              player'.music = [state |-> "playing", data |-> player_audio_data]
       /\ call'.op \in SourceOps /\ player.music.state # "stopped" =>
              player'.music = player.music]_vars

\* a crop made during a playback of the uncropped buffer
EditedInFlight ==
    /\ call.op = "crop_selected"
    /\ call.exc = "none"
    /\ player.music.state = "playing"
    /\ undo_stack # <<>>
    /\ player.music.data = Last(undo_stack).data
    /\ player.music.data # player_audio_data

\* C21: crop_selected with the active selection (start, end) makes the new
\* buffer samples[start:end] of the old one, of length end - start, and
\* pushes the old buffer; for the selection (0, length) the buffer is
\* unchanged.
CropSelectedKeepsSelection ==
    [][call'.op = "crop_selected" /\ selected_region # None =>
           LET start == int(selected_region[1])
               end == int(selected_region[2])
           IN /\ call'.exc = "none"
              /\ data' = Arr(Slice(data.s, start, end))
              /\ Len(data'.s) = end - start
              /\ PushedOne
              /\ Last(undo_stack').data = data
              /\ (start = 0 /\ end = Len(data.s)) => data' = data]_vars

\* C22: crop_unselected with the active selection (start, end) makes the
\* new buffer samples[:start] followed by samples[end:] of the old one, of
\* length length - (end - start).
CropUnselectedRemovesSelection ==
    [][call'.op = "crop_unselected" /\ selected_region # None =>
           LET start == int(selected_region[1])
               end == int(selected_region[2])
           IN /\ call'.exc = "none"
              /\ data' = Arr(SliceTo(data.s, start) \o SliceFrom(data.s, end))
              /\ Len(data'.s) = Len(data.s) - (end - start)]_vars

Peak(x) == Max({Abs(x[i]) : i \in DOMAIN x})

\* C23: trim_audio(db) on a buffer with peak ref > 0 zeroes every sample
\* with |sample| < ref * 10^(db/20) and leaves every other sample as it is
\* (a sample equal to the threshold survives), keeping the length; with
\* db = 0 the peak sample survives; with db = -20 the buffer
\* [0.1, 0.5, -0.9, 0.05, 0.01] becomes [0.1, 0.5, -0.9, 0, 0].
TrimZeroesBelowThreshold ==
    (trk.phase = 9 /\ call.op = "trim_audio" /\ Peak(trk.x) > 0) =>
        LET x == trk.x
            y == data.s
            g == Gain(trk.arg)
        IN /\ Sized(data)
           /\ Len(y) = Len(x)
           /\ \A i \in DOMAIN x :
                 /\ Abs(x[i]) * g[2] < Peak(x) * g[1] => y[i] = 0
                 /\ Abs(x[i]) * g[2] >= Peak(x) * g[1] => y[i] = x[i]
           /\ trk.arg = 0 =>
                 \A i \in DOMAIN x : Abs(x[i]) = Peak(x) => y[i] = x[i]
           /\ (trk.arg = -20 /\ x = TrimExample) =>
                 y = <<10, 50, -90, 0, 0>>

\* the example trimmed at -20 dB
TrimExampleDone ==
    /\ trk.phase = 9
    /\ call.op = "trim_audio"
    /\ trk.arg = -20
    /\ trk.x = TrimExample
    /\ data.s = <<10, 50, -90, 0, 0>>
    /\ undo_stack = <<Entry(Arr(TrimExample), <<0, 5 * Res>>)>>

\* the editor holds a non-empty buffer whose samples are all zero
Silent ==
    /\ Sized(audio_data)
    /\ audio_data.s # <<>>
    /\ \A i \in DOMAIN audio_data.s : audio_data.s[i] = 0

\* C24: trim_audio on a non-empty buffer whose samples are all zero is a
\* silent no-op: buffer, undo stack, redo stack, player source and plot are
\* unchanged and no error is reported.
TrimOfSilenceIsNoOp ==
    [][call'.op = "trim_audio" /\ Silent =>
           /\ UNCHANGED <<data, audio_data, undo_stack, redo_stack,
                          player_audio_data, xlim, position_line, fs>>
           /\ call'.exc = "none"
           /\ call'.report = "none"]_vars

\* trim was called on three samples of silence
TrimOfSilenceDone ==
    /\ trk.phase = 9
    /\ call.op = "trim_audio"
    /\ trk.x = <<0, 0, 0>>
    /\ data = Arr(<<0, 0, 0>>)
    /\ undo_stack = <<>>

\* C25: change_pitch with semitones = 0 gives factor 1 and maps every bin
\* index to itself, so the remapped spectrum is the original spectrum and
\* the output buffer equals the input buffer (same length, same samples).
PitchZeroIsIdentity ==
    (trk.phase = 9 /\ call.op = "change_pitch" /\ trk.arg = 0) =>
        LET x == trk.x
            factor == Factor(trk.arg)
        IN /\ factor[1] = factor[2]
           /\ \A i \in 0..(Len(x) - 1) : new_index(i, factor) = i
           /\ Remap(fft(x), factor) = fft(x)
           /\ data = Arr(x)
           /\ audio_data = Arr(x)

\* the example buffer shifted by 0 semitones
PitchZeroDone ==
    /\ trk.phase = 9
    /\ call.op = "change_pitch"
    /\ call.report = "information"
    /\ trk.arg = 0
    /\ trk.x = TrimExample
    /\ undo_stack # <<>>

\* the bins i (0-based) of N that are written to target bin j
Sources(j, N, factor) ==
    {i \in 0..(N - 1) : (i * factor[1]) \div factor[2] = j}

\* C26: fft_pitch_shift on a spectrum of N bins builds a spectrum of N bins
\* whose bin j holds the original bin with the largest index i such that
\* floor(i * factor) = j, or zero when there is none; original bins with
\* floor(i * factor) >= N are dropped.
RemapLastBinWins ==
    (trk.phase = 9 /\ call.op = "change_pitch") =>
        LET x == trk.x
            N == Len(x)
            factor == Factor(trk.arg)
            X == fft(x)
            Y == [j1 \in 1..N |->
                    IF Sources(j1 - 1, N, factor) = {} THEN 0
                    ELSE X[Max(Sources(j1 - 1, N, factor)) + 1]]
        IN /\ Len(Remap(X, factor)) = N
           /\ Remap(X, factor) = Y
           /\ data = Arr(ifft(Y))

\* a shift down by an octave of five samples: bins 0 and 1 collide on
\* target 0, bins 2 and 3 on target 1, and targets 3 and 4 stay zero
RemapCollisionDone ==
    /\ trk.phase = 9
    /\ call.op = "change_pitch"
    /\ trk.arg = -12
    /\ trk.x = TrimExample
    /\ fft(data.s) = <<fft(trk.x)[2], fft(trk.x)[4], fft(trk.x)[5], 0, 0>>

\* C27: apply_filter with a selector index outside {0, 1, 2} (negative
\* ones too) reports an error and changes nothing; with an index in
\* {0, 1, 2} on a non-empty buffer it pushes exactly one history entry and
\* replaces the buffer by a filtered one of the same length.
FilterIndexContract ==
    [][call'.op = "apply_filter" /\ ~NoAudio(St) =>
           IF trk'.arg \in {0, 1, 2}
           THEN /\ PushedOne
                /\ Normal
                /\ data' = Arr(filtfilt(trk'.arg, audio_data.s))
                /\ Len(data'.s) = Len(audio_data.s)
           ELSE /\ call'.report = "critical"
                /\ UNCHANGED <<data, audio_data, undo_stack, redo_stack,
                               player_audio_data, xlim, position_line>>]_vars

\* the mixer was playing when the timer fired, so the tick went to
\* update_position_line
TickShown ==
    /\ call'.op = "emit_position"
    /\ trk'.phase = 10
    /\ player.music.state = "playing"

\* C28: update_position_line(elapsed_ms) computes position_index =
\* elapsed_ms / 1000 * sample_rate; when the index is within the buffer the
\* playhead marker moves to it, and otherwise the widget signals that
\* playback has finished (the slot of that signal, reset_position_line,
\* runs) and the marker does not move past the buffer.
PositionUpdateOutcome ==
    [][TickShown =>
           IF position_index(trk'.ms, fs) <= Len(data.s)
           THEN position_line' = position_index(trk'.ms, fs) * Res
           ELSE position_line' = reset_position_line(St).position_line]_vars

\* the samples in flight are the active selection's slice of the buffer
PlayingSelection ==
    /\ selected_region # None
    /\ Sized(data)
    /\ initial_frame = int(selected_region[1])
    /\ player.music.data =
           Arr(Slice(data.s, int(selected_region[1]), int(selected_region[2])))

\* C29: during playback started from a selection beginning at frame s with
\* sample rate r, the playhead index shown for mixer elapsed time t ms is
\* floor(t * r / 1000) + s; at t = 0 it is s, and it is never below s.
PlayheadIsElapsedPlusStart ==
    [][TickShown /\ PlayingSelection =>
           /\ position_line' =
                  (((trk'.t * fs) \div 1000) + initial_frame) * Res
           /\ position_line' >= initial_frame * Res
           /\ trk'.t = 0 => position_line' = initial_frame * Res]_vars

\* a playback under way was stopped, or the timer found the mixer no
\* longer busy
PlaybackOver ==
    \/ /\ call'.op = "stop_playback"
       /\ player.playing \/ player.music.state # "stopped"
    \/ /\ call'.op = "emit_position"
       /\ player.music.state # "playing"
       /\ player.playing

\* C30: when playback finishes or is stopped, the playhead goes to the
\* start index of the active selection, or to 0 without a selection, and
\* that is where the player's current source starts within the buffer: the
\* next start_playback plays the buffer from the playhead on.
ResetPlayheadIsSourceStart ==
    [][PlaybackOver =>
           /\ position_line' = (IF selected_region # None
                                THEN int(selected_region[1]) ELSE 0) * Res
           /\ \E end \in 0..Len(data'.s) :
                  player_audio_data' =
                      Arr(Slice(data'.s, position_line' \div Res, end))]_vars

\* the click just handled fell inside the active selection, bounds included
ClickInsideSelection ==
    /\ selected_region # None
    /\ selected_region[1] <= trk'.xdata
    /\ trk'.xdata <= selected_region[2]

\* C31: a primary-button click inside the axes outside the active
\* selection's bounds clears the selection; a primary-button click inside
\* the bounds (inclusive), or with no selection active, leaves selection,
\* buffer and history unchanged; the context menu offers the zoom-in and
\* crop actions only when the secondary-button click fell inside the
\* active selection.
ClickOutcome ==
    [][trk'.phase = 11 =>
           /\ (call'.op = "on_click" /\ trk'.button = 1 /\ trk'.inaxes) =>
                  IF selected_region # None /\ ~ClickInsideSelection
                  THEN selected_region' = None
                  ELSE UNCHANGED <<selected_region, data, undo_stack,
                                   redo_stack>>
           /\ (trk'.button = 3 /\ call'.report = "menu_selected_region") =>
                  ClickInsideSelection]_vars

\* C32: after any sequence of file selections, deletions, undo-deletes and
\* uploads, selecting an existing audio file stops the playback and leaves
\* that file's samples shown in the plot, handed to the player and present
\* in audio_cache, whether they come from the cache or are decoded again.
SelectedFileIsLoaded ==
    [][(call'.op = "on_file_selected" /\ trk'.phase = 12) =>
           LET audio == nav.disk[trk'.file_path]
           IN /\ ~player'.playing
              /\ player'.music.state = "stopped"
              /\ nav'.plot.data = FileData(audio)
              /\ player_audio_data' = FileData(audio)
              /\ nav'.audio_cache[trk'.file_path] = audio]_vars

\* C33: remove_tag(t) removes the tag and every association with it:
\* afterwards the tags table has no row named t and file_tags has no row
\* with the tag id t had, after any add_tag / add_tag_to_file /
\* remove_tag_from_file calls.
RemoveTagRemovesAssociations ==
    [][(call'.op = "remove_tag" /\ trk'.phase = 14) =>
           /\ \A i \in DOMAIN metaDataDB'.tags :
                  metaDataDB'.tags[i].tag_name # trk'.tag_name
           /\ get_tag_id(St, trk'.tag_name) # Null =>
                  \A i \in DOMAIN metaDataDB'.file_tags :
                      metaDataDB'.file_tags[i].tag_id
                          # get_tag_id(St, trk'.tag_name)]_vars

\* C34: in every reachable state of the sound editor the buffer the DSP
\* edits read and Save writes (SoundEditor.audio_data) is the buffer the
\* plot displays and the crops, undo, redo and reset operate on
\* (PlotWidget.data).
EditorBufferIsPlotBuffer ==
    EditorShown => audio_data = data

\* x is a run of consecutive samples of y
IsSliceOf(x, y) ==
    \E a \in 0..Len(y), b \in 0..Len(y) : x = Slice(y, a, b)

\* C35: opening a file in the editor starts a fresh history: after
\* editing file A and opening file B, undo, redo and reset never make
\* samples of A the active buffer; with crop_selected as the only edit the
\* active buffer is always a run of consecutive samples of the file of
\* the running session.
SessionBufferIsFromItsFile ==
    trk.phase = 15 => IsSliceOf(data.s, FileData(trk.file).s)

\* C36: after every editor operation the player's playback source is
\* samples[start:end] of the current buffer when a selection (start, end)
\* is active, and the whole current buffer when none is, also after a DSP
\* edit made with a selection active and after undo_last_action.
PlayerSourceFollowsSelection ==
    (EditorShown /\ Sized(data)) =>
        player_audio_data =
            IF selected_region # None
            THEN Arr(Slice(data.s, int(selected_region[1]),
                           int(selected_region[2])))
            ELSE data

\* the step is the second of an undo/redo pair whose first had an entry to
\* restore
SecondOfPair ==
    /\ trk.phase = 16
    /\ trk.had
    /\ \/ trk.op = "undo" /\ call'.op = "redo_last_action"
       \/ trk.op = "redo" /\ call'.op = "undo_last_action"

\* C37: undo_last_action immediately followed by redo_last_action, and
\* redo_last_action immediately followed by undo_last_action, each bring
\* the active buffer and the view range back to what they were before the
\* pair, for any view range (full or zoomed).
UndoRedoPairIsIdentity ==
    [][SecondOfPair => (data' = trk.data /\ xlim' = trk.xlim)]_vars

\* the mixer has just come to the end of a playback that is still flagged
\* as playing
PlaybackRanOut == call.op = "music_end" /\ player.playing

\* the playing flag is down and the playhead is where reset_position_line
\* puts it
PlaybackReset ==
    /\ ~player.playing
    /\ position_line = (IF selected_region # None
                        THEN int(selected_region[1]) ELSE 0) * Res

\* C38: under fair timer ticks every playback that was started (by
\* start_playback or play_reverse) and whose audio runs to its end is
\* eventually followed by the playing flag being false and the playhead
\* reset; and the playing flag is true only while the position-poll timer
\* is running.
FinishedPlaybackIsReset ==
    /\ PlaybackRanOut ~> PlaybackReset
    /\ [](player.playing => player.timer)

\* C39: for any interleaving of start_playback, pause, resume,
\* stop_playback and timer ticks, at most one temporary playback file
\* exists at any time, and none exists after a stop_playback that leaves no
\* playback active.
TempFilesAreDeleted ==
    /\ player.disk <= 1
    /\ call.op = "stop_playback" /\ ~player.playing => player.disk = 0

\* the file the last entry of deleted_files was moved to
LastDeleted ==
    CHOOSE f \in nav.tmp : f.name = Last(nav.deleted_files).temp_path

\* C40: delete_file followed by undo_delete is a round trip: undo_delete
\* puts the most recently deleted file back at its original path together
\* with its metadata record, an entry leaves deleted_files only when its
\* file was moved back, and the files, the metadata rows and deleted_files
\* are then as before the delete.
DeleteUndoIsRoundTrip ==
    [][call'.op = "undo_delete" /\ nav.deleted_files # <<>> =>
           /\ nav'.deleted_files # nav.deleted_files =>
                  /\ nav'.deleted_files = Front(nav.deleted_files)
                  /\ nav'.disk[Last(nav.deleted_files).file_path] =
                         LastDeleted.audio
                  /\ LastDeleted \notin nav'.tmp
           /\ trk.phase = 13 =>
                  /\ nav'.disk = trk.disk
                  /\ metaDataDB'.audio_files = trk.audio_files
                  /\ nav'.deleted_files = trk.deleted_files]_vars

====
